---- MODULE Spec2Model ----
(***************************************************************************)
(* Model of the HTTP client (clients.request / createHeaders /             *)
(* handleAuthError) of l3-react-blocks-construct, together with the        *)
(* session store it reads and writes.                                      *)
(*                                                                         *)
(* Every call of clients.request is a process c \in Calls.  A call is cut  *)
(* at its await points: `await fetch(...)` (pc = "fetching") and           *)
(* `await getRefreshToken()` (pc = "refreshing").  Everything the code     *)
(* does between two await points runs on the single UI thread and is one   *)
(* atomic action.                                                          *)
(*                                                                         *)
(* JSON objects are records whose leaves are strings; text is a sequence   *)
(* of one-character strings.                                               *)
(*                                                                         *)
(* The module also holds the activity-log page (ActivityLogPage2: the      *)
(* three criteria, filterActivities and the handlers, which read the       *)
(* criteria of the render that created them) and the sign-in form          *)
(* (SigninForm: failed attempts, CAPTCHA, onSubmitHandler cut at           *)
(* `await mutateAsync`) and the authenticator-app setup dialog             *)
(* (AuthenticatorAppSetup: the OTP input, onVerify and the auto-verify     *)
(* effect, which runs in the step of the state change that re-renders).    *)
(* Each of the specifications Spec, ConcurrentSpec, FilterSpec, SigninSpec *)
(* and MfaSpec moves one of them and leaves the others in their initial    *)
(* state.                                                                  *)
(***************************************************************************)
EXTENDS Integers, Sequences, FiniteSets, TLC

VARIABLES
    accessToken,    \* useAuthStore.getState().accessToken
    refreshToken,   \* useAuthStore.getState().refreshToken
    env,            \* process.env, fixed when the bundle is built
    pc,             \* pc[c]: where call c stands
    req,            \* req[c]: the arguments of call c (url, method, headers, body)
    wire,           \* wire[c]: fullUrl and RequestInit of the last fetch of call c
    resp,           \* resp[c]: the last `response` of call c
    refreshRes,     \* refreshRes[c]: the last `refreshTokenRes` of call c
    outcome,        \* outcome[c]: what the promise of call c settled with
    fetchCount,     \* fetchCount[c]: fetches of the original request, saturating
    refreshCount,   \* refreshCount[c]: calls of getRefreshToken, saturating
    activities,         \* ActivityLogPage2: the imported source list
    searchQuery,        \* ActivityLogPage2: useState('')
    dateRange,          \* ActivityLogPage2: useState<DateRange | undefined>()
    selectedCategory,   \* ActivityLogPage2: useState<string[]>([])
    filteredActivities, \* ActivityLogPage2: useState(activities)
    rendered,           \* the criteria as the handlers of the last render see them
    applied,            \* the arguments of the last call of filterActivities
    googleSiteKey,      \* SigninForm: process.env.REACT_APP_GOOGLE_SITE_KEY || ''
    captchaToken,       \* SigninForm: useState('')
    failedAttempts,     \* SigninForm: useState(0)
    showCaptcha,        \* SigninForm: useState(false)
    submit,             \* SigninForm: where onSubmitHandler stands
    submitted,          \* the state the running onSubmitHandler was rendered with
    errorDetails,       \* useSigninMutation: useState({ title: '', message: '' })
    signinRes,          \* SigninForm: what the last `await mutateAsync(...)` yielded
    route,              \* the route the router shows: navigate(...)
    otpValue,           \* AuthenticatorAppSetup: useState('')
    otpError,           \* AuthenticatorAppSetup: useState('')
    mfaId,              \* AuthenticatorAppSetup: useState('')
    lastVerifiedOtpRef, \* AuthenticatorAppSetup: useRef('').current
    verifyOtpPending,   \* useVerifyOTP().isPending
    verifying,          \* the last verifyOTP call: its payload, who made it, its number
    settled,            \* the number of the last verifyOTP call that settled
    dialog              \* AuthenticatorAppSetup: "open", or "next" after onNext()

httpVars == <<accessToken, refreshToken, env, pc, req, wire, resp, refreshRes,
              outcome, fetchCount, refreshCount>>

pageVars == <<activities, searchQuery, dateRange, selectedCategory,
              filteredActivities, rendered, applied>>

formVars == <<googleSiteKey, captchaToken, failedAttempts, showCaptcha,
              submit, submitted, errorDetails, signinRes, route>>

mfaVars == <<otpValue, otpError, mfaId, lastVerifiedOtpRef, verifyOtpPending,
             verifying, settled, dialog>>

vars == <<httpVars, pageVars, formVars, mfaVars>>

\* ------------------------------------------------------------------ bounds

\* Counters saturate here, so that a call that keeps looping stays finite-state.
MaxCount == 3

\* The form takes no further submit after this many failed attempts.
MaxAttempts == 8

\* The identities of the calls of clients.request.
Calls == {1, 2}

\* ------------------------------------------------------------- JS values

Null == "null"
Undefined == "undefined"

\* JavaScript truthiness of a string-or-absent value.
Truthy(x) == x \notin {Null, Undefined, ""}

\* obj.key of a JSON object: undefined when the object has no such field.
Get(obj, key) == IF key \in DOMAIN obj THEN obj[key] ELSE Undefined

Min(a, b) == IF a < b THEN a ELSE b

Bump(n) == Min(n + 1, MaxCount)

\* ------------------------------------------------------------------ text

\* url.startsWith(prefix)
StartsWith(s, prefix) ==
    /\ Len(s) >= Len(prefix)
    /\ SubSeq(s, 1, Len(prefix)) = prefix

\* s.replace(/\/$/, '')
StripTrailingSlash(s) ==
    IF Len(s) > 0 /\ s[Len(s)] = "/" THEN SubSeq(s, 1, Len(s) - 1) ELSE s

\* s.replace(/^\//, '')
StripLeadingSlash(s) ==
    IF Len(s) > 0 /\ s[1] = "/" THEN Tail(s) ELSE s

\* const BASE_URL = process.env.REACT_APP_PUBLIC_BACKEND_URL?.replace(/\/$/, '')
BASE_URL == StripTrailingSlash(env.backendUrl)

\* const BLOCKS_KEY = process.env.REACT_APP_PUBLIC_X_BLOCKS_KEY ?? ''
BLOCKS_KEY == IF env.blocksKey \in {Null, Undefined} THEN "" ELSE env.blocksKey

\* const fullUrl = url.startsWith('http') ? url : `${BASE_URL}/${url.replace(/^\//, '')}`
FullUrl(url) ==
    IF StartsWith(url, <<"h", "t", "t", "p">>)
    THEN url
    ELSE BASE_URL \o <<"/">> \o StripLeadingSlash(url)

\* --------------------------------------------------------------- headers
\* A plain header object is a sequence of <<name, value>> pairs in insertion
\* order, no name twice; a value is a sequence of text pieces.

Names(obj) == {obj[i][1] : i \in DOMAIN obj}

Value(obj, name) == obj[CHOOSE i \in DOMAIN obj : obj[i][1] = name][2]

\* { ...a, ...b } on ordered objects: a's keys keep their place and take b's
\* value where b has the key; b's other keys follow in b's order.
SpreadObj(a, b) ==
    [i \in DOMAIN a |->
        IF a[i][1] \in Names(b) THEN <<a[i][1], Value(b, a[i][1])>> ELSE a[i]]
    \o SelectSeq(b, LAMBDA p : p[1] \notin Names(a))

\* The byte-lowercased header name, as the Headers class stores it.
LowerName(name) ==
    CASE name = "Content-Type" -> "content-type"
      [] name = "Authorization" -> "authorization"
      [] name = "X-Custom-Header" -> "x-custom-header"
      [] OTHER -> name

\* The values of the entries in order, each after the first behind ", ".
RECURSIVE JoinValues(_)
JoinValues(entries) ==
    IF Len(entries) = 1
    THEN entries[1][2]
    ELSE JoinValues(SubSeq(entries, 1, Len(entries) - 1))
         \o <<", ">> \o entries[Len(entries)][2]

\* new Headers(obj): names are lowercased; a name met again has its value
\* appended after ", ".
NewHeaders(obj) ==
    [name \in {LowerName(obj[i][1]) : i \in DOMAIN obj} |->
        JoinValues(SelectSeq(obj, LAMBDA p : LowerName(p[1]) = name))]

\* createHeaders(headers); `stored` is useAuthStore.getState().accessToken at
\* the moment of the call.
createHeaders(stored, headers) ==
    LET authToken == IF env.cookieEnabled = "false" THEN stored ELSE Null
        baseHeaders ==
            <<    <<"Content-Type", <<"application/json">>>>,
                  <<"x-blocks-key", <<BLOCKS_KEY>>>>    >>
            \o (IF Truthy(authToken)
                THEN << <<"Authorization", <<"bearer ", authToken>>>> >>
                ELSE <<>>)
    IN  NewHeaders(SpreadObj(baseHeaders, headers))

\* ------------------------------------------------- inputs and environment

\* process.env as the build may set it.
Envs ==
    [backendUrl : {<<"b">>, <<"b", "/">>},
     blocksKey : {"key"},
     cookieEnabled : {"false", "true"}]

\* The arguments of clients.get / post / put / delete.
Requests ==
    { [url |-> <<"u">>, method |-> "GET", headers |-> <<>>, body |-> Undefined],
      [url |-> <<"/", "u">>, method |-> "POST",
       headers |-> << <<"authorization", <<"custom">>>> >>, body |-> "payload"],
      [url |-> <<"h", "t", "t", "p", ":", "/", "/", "x">>, method |-> "DELETE",
       headers |-> << <<"X-Custom-Header", <<"value">>>> >>, body |-> ""],
      [url |-> <<"h", "t", "t", "p", "d">>, method |-> "PUT",
       headers |-> <<>>, body |-> "payload"] }

\* What a server can answer.
Statuses == {200, 401, 404, 500}

JsonBodies == {[message |-> "not found"], [message |-> "done"]}

RawBodies == {[parses |-> TRUE, json |-> j] : j \in JsonBodies} \cup {[parses |-> FALSE]}

\* fetch() rejects (no response), or resolves with a response.
NoResponse == [kind |-> "failure"]

FetchResults ==
    {NoResponse}
    \cup {[kind |-> "http", status |-> st, body |-> b] : st \in Statuses, b \in RawBodies}

\* The tokens sign-in hands to login(), and the ones the refresh endpoint issues.
LoginAccessTokens == {"a0"}
LoginRefreshTokens == {"r0", ""}
NewTokens == {"a1", "a2"}

\* What `await getRefreshToken()` yields: the parsed refresh response, or a
\* rejection when the refresh call itself fails.
RefreshResults ==
    {[kind |-> "json", json |-> [access_token |-> t]] : t \in NewTokens}
    \cup {[kind |-> "json", json |-> [error |-> "invalid_refresh_token",
                                      error_description |-> "expired"]],
          [kind |-> "json", json |-> [error |-> "server_error"]],
          [kind |-> "throws", error |-> [kind |-> "TypeError"]]}

\* ------------------------------------------------------------- HttpError

\* new HttpError(status, error)
HttpError(status, error) == [kind |-> "HttpError", status |-> status, error |-> error]

NetworkError == [error |-> "Network error"]

InvalidRefreshToken == [error |-> "invalid_refresh_token"]

\* A promise that resolved with `value` / rejected with `error`.
Resolved(value) == [kind |-> "value", value |-> value]

Pending == [kind |-> "pending"]

\* ------------------------------------------------------- session store
\* useAuthStore: the actions the client and the sign-in form call.

setAccessToken(token) ==
    /\ accessToken' = token
    /\ refreshToken' = refreshToken

login(access, refresh) ==
    /\ accessToken' = access
    /\ refreshToken' = refresh

logout ==
    /\ accessToken' = Null
    /\ refreshToken' = Null

\* ------------------------------------------------------------- request

\* response.ok
ResponseOk(status) == status >= 200 /\ status <= 299

\* response.json(): a promise of the parsed body, rejected when the body is
\* no JSON.
Json(response) ==
    IF response.body.parses
    THEN Resolved(response.body.json)
    ELSE [kind |-> "SyntaxError"]

\* The part of request before `await fetch`: fullUrl and the RequestInit.
RequestConfig(stored, r) ==
    [url |-> FullUrl(r.url),
     method |-> r.method,
     credentials |-> "include",
     headers |-> createHeaders(stored, r.headers),
     body |-> IF Truthy(r.body) THEN r.body ELSE Undefined]

\* A catch clause that rethrows whatever it caught.
RequestCatch_Rethrow(error) == error

\* The catch clause of request.
RequestCatch(error) ==
    IF error.kind = "HttpError" THEN error ELSE HttpError(500, NetworkError)

\* request from the settling of `await fetch` on: what the call settles with,
\* or Pending where the code goes on into handleAuthError.  A promise that is
\* returned without await settles the call directly, past the catch clause.
RequestAfterFetch(response) ==
    IF response.kind = "failure"
    THEN RequestCatch([kind |-> "TypeError"])
    ELSE IF ResponseOk(response.status)
    THEN Json(response)
    ELSE IF response.status = 401
    THEN Pending
    ELSE LET err == Json(response)
         IN  IF err.kind = "value"
             THEN RequestCatch(HttpError(response.status, err.value))
             ELSE RequestCatch(err)

\* A guard that takes only null for a missing refresh token.
HandleAuthErrorStart_NullOnly(storedRefresh) ==
    IF storedRefresh = Null
    THEN HttpError(401, [error |-> "invalid_refresh_token"])
    ELSE Pending

\* handleAuthError up to `await getRefreshToken()`: the rejection, or Pending
\* when the refresh call is made.
HandleAuthErrorStart(storedRefresh) ==
    IF ~Truthy(storedRefresh)
    THEN HttpError(401, InvalidRefreshToken)
    ELSE Pending

\* A handleAuthError that does not look at the refresh response's error.
HandleAuthErrorAfterRefresh_NoCheck(res) ==
    IF res.kind = "throws" THEN res.error ELSE Pending

\* handleAuthError from the settling of `await getRefreshToken()` on: the
\* rejection, or Pending when the code goes on to setAccessToken and request.
HandleAuthErrorAfterRefresh(res) ==
    IF res.kind = "throws"
    THEN res.error
    ELSE IF Get(res.json, "error") = "invalid_refresh_token"
    THEN HttpError(401, res.json)
    ELSE Pending

\* ------------------------------------------------------------- actions

NoResult == [kind |-> "none"]

InFlight == {"fetching", "refreshing"}

Settled(c, o) ==
    /\ outcome' = [outcome EXCEPT ![c] = o]
    /\ pc' = [pc EXCEPT ![c] = IF o.kind = "value" THEN "returned" ELSE "failed"]

\* clients.get / post / put / delete / request, up to `await fetch`.
Call(c, r) ==
    /\ pc[c] \notin InFlight
    /\ req' = [req EXCEPT ![c] = r]
    /\ wire' = [wire EXCEPT ![c] = RequestConfig(accessToken, r)]
    /\ fetchCount' = [fetchCount EXCEPT ![c] = 1]
    /\ refreshCount' = [refreshCount EXCEPT ![c] = 0]
    /\ resp' = [resp EXCEPT ![c] = NoResult]
    /\ refreshRes' = [refreshRes EXCEPT ![c] = NoResult]
    /\ outcome' = [outcome EXCEPT ![c] = Pending]
    /\ pc' = [pc EXCEPT ![c] = "fetching"]
    /\ UNCHANGED <<accessToken, refreshToken, env>>
    /\ UNCHANGED <<pageVars, formVars, mfaVars>>

\* A single-flight client: a 401 met while another call's refresh is pending
\* waits for that refresh instead of calling the refresh endpoint itself.
FetchResponse_SingleFlight(c) ==
    /\ pc[c] = "fetching"
    /\ \E response \in FetchResults :
        LET o == RequestAfterFetch(response)
            a == HandleAuthErrorStart(refreshToken)
        IN  /\ resp' = [resp EXCEPT ![c] = response]
            /\ IF o.kind # "pending"
               THEN /\ Settled(c, o)
                    /\ UNCHANGED refreshCount
               ELSE IF a.kind # "pending"
               THEN /\ Settled(c, a)
                    /\ UNCHANGED refreshCount
               ELSE /\ refreshCount' =
                         IF \E d \in Calls \ {c} : pc[d] = "refreshing"
                         THEN refreshCount
                         ELSE [refreshCount EXCEPT ![c] = Bump(@)]
                    /\ pc' = [pc EXCEPT ![c] = "refreshing"]
                    /\ UNCHANGED outcome
    /\ UNCHANGED <<accessToken, refreshToken, env, req, wire, refreshRes, fetchCount>>
    /\ UNCHANGED <<pageVars, formVars, mfaVars>>

\* `await fetch` settles: request runs on, into handleAuthError on a 401, up
\* to the next await or to the end of the call.
FetchResponse(c) ==
    /\ pc[c] = "fetching"
    /\ \E response \in FetchResults :
        LET o == RequestAfterFetch(response)
            a == HandleAuthErrorStart(refreshToken)
        IN  /\ resp' = [resp EXCEPT ![c] = response]
            /\ IF o.kind # "pending"
               THEN /\ Settled(c, o)
                    /\ UNCHANGED refreshCount
               ELSE IF a.kind # "pending"
               THEN /\ Settled(c, a)
                    /\ UNCHANGED refreshCount
               ELSE /\ refreshCount' = [refreshCount EXCEPT ![c] = Bump(@)]
                    /\ pc' = [pc EXCEPT ![c] = "refreshing"]
                    /\ UNCHANGED outcome
    /\ UNCHANGED <<accessToken, refreshToken, env, req, wire, refreshRes, fetchCount>>
    /\ UNCHANGED <<pageVars, formVars, mfaVars>>

\* A handleAuthError that signs the user out when the refresh is rejected.
RefreshResponse_ClearsSession(c) ==
    /\ pc[c] = "refreshing"
    /\ \E res \in RefreshResults :
        LET o == HandleAuthErrorAfterRefresh(res)
        IN  /\ refreshRes' = [refreshRes EXCEPT ![c] = res]
            /\ IF o.kind # "pending"
               THEN /\ Settled(c, o)
                    /\ logout
                    /\ UNCHANGED <<wire, fetchCount>>
               ELSE /\ setAccessToken(Get(res.json, "access_token"))
                    /\ wire' = [wire EXCEPT ![c] =
                                  RequestConfig(Get(res.json, "access_token"), req[c])]
                    /\ fetchCount' = [fetchCount EXCEPT ![c] = Bump(@)]
                    /\ pc' = [pc EXCEPT ![c] = "fetching"]
                    /\ UNCHANGED outcome
    /\ UNCHANGED <<env, req, resp, refreshCount>>
    /\ UNCHANGED <<pageVars, formVars, mfaVars>>

\* `await getRefreshToken()` settles: handleAuthError runs on, and on success
\* into request again, up to its `await fetch`.
RefreshResponse(c) ==
    /\ pc[c] = "refreshing"
    /\ \E res \in RefreshResults :
        LET o == HandleAuthErrorAfterRefresh(res)
        IN  /\ refreshRes' = [refreshRes EXCEPT ![c] = res]
            /\ IF o.kind # "pending"
               THEN /\ Settled(c, o)
                    /\ UNCHANGED <<accessToken, refreshToken, wire, fetchCount>>
               ELSE /\ setAccessToken(Get(res.json, "access_token"))
                    /\ wire' = [wire EXCEPT ![c] =
                                  RequestConfig(Get(res.json, "access_token"), req[c])]
                    /\ fetchCount' = [fetchCount EXCEPT ![c] = Bump(@)]
                    /\ pc' = [pc EXCEPT ![c] = "fetching"]
                    /\ UNCHANGED outcome
    /\ UNCHANGED <<env, req, resp, refreshCount>>
    /\ UNCHANGED <<pageVars, formVars, mfaVars>>

\* The sign-in form stores the tokens of a successful sign-in.
Login ==
    /\ \E a \in LoginAccessTokens, r \in LoginRefreshTokens : login(a, r)
    /\ UNCHANGED <<env, pc, req, wire, resp, refreshRes, outcome, fetchCount, refreshCount>>
    /\ UNCHANGED <<pageVars, formVars, mfaVars>>

\* Sign-out clears the store.
Logout ==
    /\ Truthy(accessToken) \/ Truthy(refreshToken)
    /\ logout
    /\ UNCHANGED <<env, pc, req, wire, resp, refreshRes, outcome, fetchCount, refreshCount>>
    /\ UNCHANGED <<pageVars, formVars, mfaVars>>

\* ------------------------------------------------- activity-log page
\* An activity group is [date, items]; an item is [description, category];
\* a DateRange is a record that has `from`, `to`, both or neither.

\* ch.toLowerCase() on the characters the data uses.
LowerChar(ch) ==
    CASE ch = "A" -> "a"
      [] ch = "B" -> "b"
      [] ch = "I" -> "i"
      [] ch = "M" -> "m"
      [] ch = "T" -> "t"
      [] OTHER -> ch

\* s.toLowerCase()
toLowerCase(s) == [i \in DOMAIN s |-> LowerChar(s[i])]

\* s.includes(q)
includes(s, q) ==
    \E i \in 0..(Len(s) - Len(q)) : SubSeq(s, i + 1, i + Len(q)) = q

\* The characters \s matches.
Whitespace == {" ", "\t"}

\* s without its leading whitespace.
RECURSIVE SkipWhitespace(_)
SkipWhitespace(s) ==
    IF s # <<>> /\ s[1] \in Whitespace THEN SkipWhitespace(Tail(s)) ELSE s

\* s.replace(/\s+/g, '_')
RECURSIVE ReplaceWhitespaceRuns(_)
ReplaceWhitespaceRuns(s) ==
    IF s = <<>>
    THEN <<>>
    ELSE IF s[1] \in Whitespace
    THEN <<"_">> \o ReplaceWhitespaceRuns(SkipWhitespace(s))
    ELSE <<s[1]>> \o ReplaceWhitespaceRuns(Tail(s))

\* A normalisation that puts one underscore for every whitespace character.
transformCategory_PerChar(category) ==
    [i \in DOMAIN category |->
        IF category[i] \in Whitespace THEN "_" ELSE LowerChar(category[i])]

\* const transformCategory = (category) => category.toLowerCase().replace(/\s+/g, '_')
transformCategory(category) == ReplaceWhitespaceRuns(toLowerCase(category))

\* new Date(activity.date).getTime(), on the date strings the data uses.
GetTime(date) ==
    CASE date = "2024-01-01" -> 1
      [] date = "2024-01-02" -> 2
      [] date = "2024-01-03" -> 3

\* range?.from && range?.to
HasBothBounds(range) == "from" \in DOMAIN range /\ "to" \in DOMAIN range

\* A date step whose bounds are exclusive.
DateStep_Exclusive(filtered, range) ==
    IF HasBothBounds(range)
    THEN SelectSeq(filtered, LAMBDA activity :
            GetTime(activity.date) > range.from /\ GetTime(activity.date) < range.to)
    ELSE filtered

\* filterActivities: `if (range?.from && range?.to) { filtered = filtered.filter(...) }`
DateStep(filtered, range) ==
    IF HasBothBounds(range)
    THEN SelectSeq(filtered, LAMBDA activity :
            GetTime(activity.date) >= range.from /\ GetTime(activity.date) <= range.to)
    ELSE filtered

\* .filter((group) => group.items.length > 0)
DropEmptyGroups(groups) ==
    SelectSeq(groups, LAMBDA group : Len(group.items) > 0)

\* A text step that compares the description as written.
TextStep_CaseSensitive(filtered, query) ==
    IF query # <<>>
    THEN DropEmptyGroups(
            [i \in DOMAIN filtered |->
                [filtered[i] EXCEPT !.items = SelectSeq(@, LAMBDA item :
                    includes(item.description, query))]])
    ELSE filtered

\* A text step that hands on the lowercased descriptions it compared.
TextStep_Lowercasing(filtered, query) ==
    IF query # <<>>
    THEN DropEmptyGroups(
            [i \in DOMAIN filtered |->
                [filtered[i] EXCEPT !.items = SelectSeq(
                    [k \in DOMAIN @ |-> [@[k] EXCEPT !.description = toLowerCase(@)]],
                    LAMBDA item : includes(item.description, toLowerCase(query)))]])
    ELSE filtered

\* filterActivities: `if (query) { filtered = filtered.map(...).filter(...) }`
TextStep(filtered, query) ==
    IF query # <<>>
    THEN DropEmptyGroups(
            [i \in DOMAIN filtered |->
                [filtered[i] EXCEPT !.items = SelectSeq(@, LAMBDA item :
                    includes(toLowerCase(item.description), toLowerCase(query)))]])
    ELSE filtered

\* categories.includes(x)
ArrayIncludes(array, x) == \E i \in DOMAIN array : array[i] = x

\* A category step that keeps a whole group when one of its items is selected.
CategoryStep_GroupLevel(filtered, categories) ==
    IF Len(categories) > 0
    THEN SelectSeq(filtered, LAMBDA activity :
            \E i \in DOMAIN activity.items :
                ArrayIncludes(categories, transformCategory(activity.items[i].category)))
    ELSE filtered

\* filterActivities: `if (categories.length > 0) { filtered = filtered.map(...).filter(...) }`
CategoryStep(filtered, categories) ==
    IF Len(categories) > 0
    THEN DropEmptyGroups(
            [i \in DOMAIN filtered |->
                [filtered[i] EXCEPT !.items = SelectSeq(@, LAMBDA item :
                    ArrayIncludes(categories, transformCategory(item.category)))]])
    ELSE filtered

\* filterActivities(query, range, categories): the list it hands to
\* setFilteredActivities.
filterActivities(query, range, categories) ==
    CategoryStep(TextStep(DateStep(activities, range), query), categories)

\* The source lists of activity-data.
Sources ==
    { <<  [date |-> "2024-01-01",
           items |-> << [description |-> <<"A", "b">>, category |-> <<"T", " ", "\t", "M">>],
                        [description |-> <<"b">>, category |-> <<"I">>] >>],
          [date |-> "2024-01-02",
           items |-> << [description |-> <<"a">>, category |-> <<"i">>],
                        [description |-> <<"B", "a">>, category |-> <<"t", " ", "m">>] >>],
          [date |-> "2024-01-03", items |-> <<>>]  >>,
      <<  [date |-> "2024-01-03",
           items |-> << [description |-> <<"a", "b">>, category |-> <<"T", "\t", "M">>] >>],
          [date |-> "2024-01-01",
           items |-> << [description |-> <<"b">>, category |-> <<"I">>] >>]  >> }

\* What the toolbar can hand to the handlers.
Queries == {<<>>, <<"a">>, <<"A", "B">>}

NoRange == [undefined |-> TRUE]

DateRanges ==
    {NoRange, [from |-> 2], [to |-> 2],
     [from |-> 1, to |-> 2], [from |-> 2, to |-> 2], [from |-> 2, to |-> 3]}

CategoryArrays ==
    {<<>>, << <<"t", "_", "m">> >>, << <<"i">> >>, << <<"t", "_", "m">>, <<"i">> >>}

\* The criteria held in the page's state.
Criteria == [searchQuery |-> searchQuery, dateRange |-> dateRange,
             selectedCategory |-> selectedCategory]

\* filterActivities called from a handler: setFilteredActivities(filtered).
Filter(query, range, categories) ==
    /\ filteredActivities' = filterActivities(query, range, categories)
    /\ applied' = [query |-> query, range |-> range, categories |-> categories]

\* handleSearchChange(query); dateRange and selectedCategory are the values
\* of the render that created the handler.
handleSearchChange(query) ==
    /\ searchQuery' = query
    /\ Filter(query, rendered.dateRange, rendered.selectedCategory)
    /\ UNCHANGED <<activities, dateRange, selectedCategory, rendered>>
    /\ UNCHANGED <<httpVars, formVars, mfaVars>>

\* handleDateRangeChange(range)
handleDateRangeChange(range) ==
    /\ dateRange' = range
    /\ Filter(rendered.searchQuery, range, rendered.selectedCategory)
    /\ UNCHANGED <<activities, searchQuery, selectedCategory, rendered>>
    /\ UNCHANGED <<httpVars, formVars, mfaVars>>

\* handleCategoryChange(categories)
handleCategoryChange(categories) ==
    /\ selectedCategory' = categories
    /\ Filter(rendered.searchQuery, rendered.dateRange, categories)
    /\ UNCHANGED <<activities, searchQuery, dateRange, rendered>>
    /\ UNCHANGED <<httpVars, formVars, mfaVars>>

\* The page re-renders after a state change: the handlers are created anew
\* over the current state.
Render ==
    /\ rendered # Criteria
    /\ rendered' = Criteria
    /\ UNCHANGED <<activities, searchQuery, dateRange, selectedCategory,
                   filteredActivities, applied>>
    /\ UNCHANGED <<httpVars, formVars, mfaVars>>

\* The page as first rendered over the source list.
PageInit(source) ==
    /\ activities = source
    /\ searchQuery = <<>>
    /\ dateRange = NoRange
    /\ selectedCategory = <<>>
    /\ filteredActivities = source
    /\ rendered = [searchQuery |-> <<>>, dateRange |-> NoRange, selectedCategory |-> <<>>]
    /\ applied = [query |-> <<>>, range |-> NoRange, categories |-> <<>>]

\* --------------------------------------------------------- sign-in form

\* useSigninMutation: the error texts the form shows.
NoErrorDetails == [title |-> "", message |-> ""]

\* useSigninMutation onError: setErrorDetails(...)
ErrorDetailsOf(error) ==
    LET isInvalidCredentials ==
            /\ Get(error, "status") = "400"
            /\ Get(error, "error") = "invalid_username_password"
    IN  [title |-> IF isInvalidCredentials
                   THEN "Invalid Credentials" ELSE "Something went wrong",
         message |-> IF isInvalidCredentials
                     THEN "Your email or password is not valid."
                     ELSE "Please try again."]

\* The routes: the sign-in page, `/verify-key?mfa_id=...&mfa_type=...&user_name=...`
\* and `/`.
SigninRoute == [path |-> "/login"]

VerifyKeyRoute(res) == [path |-> "/verify-key", mfa_id |-> Get(res, "mfaId")]

HomeRoute == [path |-> "/"]

\* The form as first rendered.
FormInit(siteKey) ==
    /\ googleSiteKey = siteKey
    /\ captchaToken = ""
    /\ failedAttempts = 0
    /\ showCaptcha = FALSE
    /\ submit = "idle"
    /\ submitted = [failedAttempts |-> 0, showCaptcha |-> FALSE]
    /\ errorDetails = NoErrorDetails
    /\ signinRes = NoResult
    /\ route = SigninRoute

\* `newFailedAttempts >= 3`: the failed attempts that bring up the CAPTCHA.
CaptchaThreshold == 3

\* const captchaEnabled = googleSiteKey !== ''
captchaEnabled == googleSiteKey # ""

\* REACT_APP_GOOGLE_SITE_KEY as the build may set it.
SiteKeys == {"", "site-key"}

\* The tokens the CAPTCHA widget hands to onVerify.
CaptchaTokens == {"t1", "t2"}

\* What `await mutateAsync(...)` yields: a sign-in response, or a rejection.
SigninResults ==
    {[kind |-> "json", json |-> [access_token |-> a, refresh_token |-> r]] :
        a \in LoginAccessTokens, r \in LoginRefreshTokens}
    \cup {[kind |-> "json", json |-> [enable_mfa |-> "true", mfaId |-> "m1"]],
          [kind |-> "throws",
           error |-> [status |-> "400", error |-> "invalid_username_password"]],
          [kind |-> "throws", error |-> [status |-> "500", error |-> "server_error"]]}

\* `captchaEnabled && showCaptcha`: the Captcha widget is on the page.
CaptchaRendered == captchaEnabled /\ showCaptcha

\* handleCaptchaVerify(token)
handleCaptchaVerify(token) ==
    /\ submit # "left"
    /\ CaptchaRendered
    /\ captchaToken' = token
    /\ UNCHANGED <<googleSiteKey, failedAttempts, showCaptcha, submit, submitted,
                   errorDetails, signinRes, route>>
    /\ UNCHANGED <<httpVars, pageVars, mfaVars>>

\* handleCaptchaExpired()
handleCaptchaExpired ==
    /\ submit # "left"
    /\ CaptchaRendered
    /\ captchaToken # ""
    /\ captchaToken' = ""
    /\ UNCHANGED <<googleSiteKey, failedAttempts, showCaptcha, submit, submitted,
                   errorDetails, signinRes, route>>
    /\ UNCHANGED <<httpVars, pageVars, mfaVars>>

\* A handler that sends the request whether or not a CAPTCHA token is held.
onSubmitHandler_Unguarded ==
    /\ submit = "idle"
    /\ failedAttempts < MaxAttempts
    /\ submit' = "pending"
    /\ submitted' = [failedAttempts |-> failedAttempts, showCaptcha |-> showCaptcha]
    /\ UNCHANGED <<googleSiteKey, captchaToken, failedAttempts, showCaptcha,
                   errorDetails, signinRes, route>>
    /\ UNCHANGED <<httpVars, pageVars, mfaVars>>

\* onSubmitHandler up to `await mutateAsync(...)`; the form is submitted
\* while isPending is false.
onSubmitHandler ==
    /\ submit = "idle"
    /\ failedAttempts < MaxAttempts
    /\ IF captchaEnabled /\ showCaptcha /\ captchaToken = ""
       THEN UNCHANGED <<submit, submitted>>
       ELSE /\ submit' = "pending"
            /\ submitted' = [failedAttempts |-> failedAttempts,
                             showCaptcha |-> showCaptcha]
    /\ UNCHANGED <<googleSiteKey, captchaToken, failedAttempts, showCaptcha,
                   errorDetails, signinRes, route>>
    /\ UNCHANGED <<httpVars, pageVars, mfaVars>>

\* A catch clause that brings up the CAPTCHA only after more than three
\* failed attempts.
SubmitCatch_AfterThreshold ==
    IF captchaEnabled
    THEN LET newFailedAttempts == submitted.failedAttempts + 1
         IN  /\ failedAttempts' = newFailedAttempts
             /\ showCaptcha' =
                    IF newFailedAttempts > CaptchaThreshold /\ ~submitted.showCaptcha
                    THEN TRUE
                    ELSE showCaptcha
    ELSE UNCHANGED <<failedAttempts, showCaptcha>>

\* onSubmitHandler: the catch clause.
SubmitCatch ==
    IF captchaEnabled
    THEN LET newFailedAttempts == submitted.failedAttempts + 1
         IN  /\ failedAttempts' = newFailedAttempts
             /\ showCaptcha' =
                    IF newFailedAttempts >= CaptchaThreshold /\ ~submitted.showCaptcha
                    THEN TRUE
                    ELSE showCaptcha
    ELSE UNCHANGED <<failedAttempts, showCaptcha>>

\* A handler that stores whatever tokens the response holds before it looks
\* at enable_mfa.
SigninResponse_LoginFirst ==
    /\ submit = "pending"
    /\ \E res \in SigninResults :
        /\ signinRes' = res
        /\ IF res.kind = "throws"
           THEN /\ errorDetails' = ErrorDetailsOf(res.error)
                /\ SubmitCatch
                /\ submit' = "idle"
                /\ UNCHANGED <<accessToken, refreshToken, route>>
           ELSE IF Truthy(Get(res.json, "enable_mfa"))
           THEN /\ errorDetails' = NoErrorDetails
                /\ login(Get(res.json, "access_token"), Get(res.json, "refresh_token"))
                /\ route' = VerifyKeyRoute(res.json)
                /\ submit' = "left"
                /\ UNCHANGED <<failedAttempts, showCaptcha>>
           ELSE /\ errorDetails' = NoErrorDetails
                /\ login(res.json.access_token, res.json.refresh_token)
                /\ route' = HomeRoute
                /\ submit' = "left"
                /\ UNCHANGED <<failedAttempts, showCaptcha>>
    /\ UNCHANGED <<googleSiteKey, captchaToken, submitted>>
    /\ UNCHANGED <<env, pc, req, wire, resp, refreshRes, outcome, fetchCount, refreshCount>>
    /\ UNCHANGED <<pageVars, mfaVars>>

\* `await mutateAsync(...)` settles: the mutation's onSuccess / onError, then
\* onSubmitHandler to its end.
SigninResponse ==
    /\ submit = "pending"
    /\ \E res \in SigninResults :
        /\ signinRes' = res
        /\ IF res.kind = "throws"
           THEN /\ errorDetails' = ErrorDetailsOf(res.error)
                /\ SubmitCatch
                /\ submit' = "idle"
                /\ UNCHANGED <<accessToken, refreshToken, route>>
           ELSE IF Truthy(Get(res.json, "enable_mfa"))
           THEN /\ errorDetails' = NoErrorDetails
                /\ route' = VerifyKeyRoute(res.json)
                /\ submit' = "left"
                /\ UNCHANGED <<accessToken, refreshToken, failedAttempts, showCaptcha>>
           ELSE /\ errorDetails' = NoErrorDetails
                /\ login(res.json.access_token, res.json.refresh_token)
                /\ route' = HomeRoute
                /\ submit' = "left"
                /\ UNCHANGED <<failedAttempts, showCaptcha>>
    /\ UNCHANGED <<googleSiteKey, captchaToken, submitted>>
    /\ UNCHANGED <<env, pc, req, wire, resp, refreshRes, outcome, fetchCount, refreshCount>>
    /\ UNCHANGED <<pageVars, mfaVars>>

\* ------------------------------------------- authenticator-app setup

\* What the OTP input can hold: nothing, five digits, and two full codes that
\* share those five digits.
OtpValues ==
    {<<>>,
     <<"1", "2", "3", "4", "5">>,
     <<"1", "2", "3", "4", "5", "6">>,
     <<"1", "2", "3", "4", "5", "7">>}

\* The mfaId generateOTP answers with.
MfaIds == {"m1", "m2"}

\* What verifyOTP settles with: a response, or an error.
VerifyResults ==
    {[kind |-> "json", json |-> [isSuccess |-> "true", isValid |-> "true"]],
     [kind |-> "json", json |-> [isSuccess |-> "true", isValid |-> "false"]],
     [kind |-> "throws"]}

\* No verifyOTP call made yet.
NotVerifying == [verificationCode |-> <<>>, mfaId |-> "", by |-> "none", n |-> 0]

\* onVerify past its mfaId check: verifyOTP(verifyPayload, ...).
VerifyCall(code, id, by) ==
    [verificationCode |-> code, mfaId |-> id, by |-> by, n |-> 1 - verifying.n]

\* An effect condition that does not remember the code it verified last.
AutoVerifyDue_Forgetful(otp, id, pending, last) ==
    /\ Len(otp) = 6
    /\ Truthy(id)
    /\ ~pending

\* The condition of the auto-verify effect.
AutoVerifyDue(otp, id, pending, last) ==
    /\ Len(otp) = 6
    /\ Truthy(id)
    /\ ~pending
    /\ otp # last

\* The auto-verify effect, run after the render that follows a state change;
\* otp, id and pending are the values of that render.
AutoVerify(otp, id, pending) ==
    IF AutoVerifyDue(otp, id, pending, lastVerifiedOtpRef)
    THEN /\ lastVerifiedOtpRef' = otp
         /\ verifying' = VerifyCall(otp, id, "effect")
         /\ verifyOtpPending' = TRUE
    ELSE /\ lastVerifiedOtpRef' = lastVerifiedOtpRef
         /\ verifying' = verifying
         /\ verifyOtpPending' = pending

\* UIOtpInput onChange: setOtpValue(value); setOtpError('').
OtpChange(value) ==
    /\ dialog = "open"
    /\ value # otpValue
    /\ otpValue' = value
    /\ otpError' = ""
    /\ AutoVerify(value, mfaId, verifyOtpPending)
    /\ UNCHANGED <<mfaId, settled, dialog>>
    /\ UNCHANGED <<httpVars, pageVars, formVars>>

\* generateOTP onSuccess: setMfaId(res.mfaId).
GenerateOtpSuccess(id) ==
    /\ dialog = "open"
    /\ id # mfaId
    /\ mfaId' = id
    /\ AutoVerify(otpValue, id, verifyOtpPending)
    /\ UNCHANGED <<otpValue, otpError, settled, dialog>>
    /\ UNCHANGED <<httpVars, pageVars, formVars>>

\* A click on Verify (enabled while not pending and the code has 6 characters):
\* onVerify.
VerifyClick ==
    /\ dialog = "open"
    /\ ~(verifyOtpPending \/ Len(otpValue) < 6)
    /\ IF ~Truthy(mfaId)
       THEN UNCHANGED <<verifying, verifyOtpPending>>
       ELSE /\ verifying' = VerifyCall(otpValue, mfaId, "click")
            /\ verifyOtpPending' = TRUE
    /\ UNCHANGED <<otpValue, otpError, mfaId, lastVerifiedOtpRef, settled, dialog>>
    /\ UNCHANGED <<httpVars, pageVars, formVars>>

\* verifyOTP settles: onSuccess / onError of onVerify, then the render and
\* its auto-verify effect.
VerifyResponse ==
    /\ dialog = "open"
    /\ verifyOtpPending
    /\ settled' = verifying.n
    /\ \E res \in VerifyResults :
        IF res.kind = "json" /\ Truthy(Get(res.json, "isSuccess")) /\ res.json.isValid = "true"
        THEN /\ dialog' = "next"
             /\ verifyOtpPending' = FALSE
             /\ UNCHANGED <<otpError, lastVerifiedOtpRef, verifying>>
        ELSE /\ otpError' = IF res.kind = "json"
                            THEN "Invalid OTP. Please try again."
                            ELSE "Verification failed. Please try again."
             /\ AutoVerify(otpValue, mfaId, FALSE)
             /\ UNCHANGED dialog
    /\ UNCHANGED <<otpValue, mfaId>>
    /\ UNCHANGED <<httpVars, pageVars, formVars>>

\* The dialog as first rendered.
MfaInit ==
    /\ otpValue = <<>>
    /\ otpError = ""
    /\ mfaId = ""
    /\ lastVerifiedOtpRef = <<>>
    /\ verifyOtpPending = FALSE
    /\ verifying = NotVerifying
    /\ settled = 0
    /\ dialog = "open"

\* ------------------------------------------------------- specifications

\* No request made, nobody signed in.
HttpInit(e) ==
    /\ accessToken = Null
    /\ refreshToken = Null
    /\ env = e
    /\ pc = [c \in Calls |-> "idle"]
    /\ req = [c \in Calls |-> NoResult]
    /\ wire = [c \in Calls |-> NoResult]
    /\ resp = [c \in Calls |-> NoResult]
    /\ refreshRes = [c \in Calls |-> NoResult]
    /\ outcome = [c \in Calls |-> NoResult]
    /\ fetchCount = [c \in Calls |-> 0]
    /\ refreshCount = [c \in Calls |-> 0]

DefaultEnv == [backendUrl |-> <<"b">>, blocksKey |-> "key", cookieEnabled |-> "false"]

DefaultSource == CHOOSE source \in Sources : Len(source) = 3

\* The HTTP client under every environment; the pages are not touched.
Init ==
    /\ \E e \in Envs : HttpInit(e)
    /\ PageInit(DefaultSource)
    /\ FormInit("")
    /\ MfaInit

\* One caller at a time: the calls follow one another.
Solo == {1}

Next ==
    \/ Login
    \/ Logout
    \/ \E c \in Solo, r \in Requests : Call(c, r)
    \/ \E c \in Solo : FetchResponse(c)
    \/ \E c \in Solo : RefreshResponse(c)

Spec == Init /\ [][Next]_vars

\* Every network call is answered or fails: a pending await settles.
FairSpec ==
    /\ Spec
    /\ \A c \in Solo : WF_vars(FetchResponse(c)) /\ WF_vars(RefreshResponse(c))

\* Several callers at once: each call identity is used for one call, made with
\* the bearer-token transport.
ConcurrentRequests == {r \in Requests : r.method = "GET"}

ConcurrentInit ==
    /\ Init
    /\ env.cookieEnabled = "false"
    /\ env.backendUrl = <<"b">>

ConcurrentNext ==
    \/ Login
    \/ Logout
    \/ \E c \in Calls, r \in ConcurrentRequests : pc[c] = "idle" /\ Call(c, r)
    \/ \E c \in Calls : FetchResponse(c)
    \/ \E c \in Calls : RefreshResponse(c)

ConcurrentSpec == ConcurrentInit /\ [][ConcurrentNext]_vars

\* The activity-log page over every source list.
FilterInit ==
    /\ HttpInit(DefaultEnv)
    /\ \E source \in Sources : PageInit(source)
    /\ FormInit("")
    /\ MfaInit

FilterNext ==
    \/ \E query \in Queries : handleSearchChange(query)
    \/ \E range \in DateRanges : handleDateRangeChange(range)
    \/ \E categories \in CategoryArrays : handleCategoryChange(categories)
    \/ Render

FilterSpec == FilterInit /\ [][FilterNext]_vars

\* The sign-in form, built with and without a site key.
SigninInit ==
    /\ HttpInit(DefaultEnv)
    /\ PageInit(DefaultSource)
    /\ \E siteKey \in SiteKeys : FormInit(siteKey)
    /\ MfaInit

SigninNext ==
    \/ \E token \in CaptchaTokens : handleCaptchaVerify(token)
    \/ handleCaptchaExpired
    \/ onSubmitHandler
    \/ SigninResponse

SigninSpec == SigninInit /\ [][SigninNext]_vars

\* The authenticator-app setup dialog, opened.
MfaSpecInit ==
    /\ HttpInit(DefaultEnv)
    /\ PageInit(DefaultSource)
    /\ FormInit("")
    /\ MfaInit

MfaNext ==
    \/ \E value \in OtpValues : OtpChange(value)
    \/ \E id \in MfaIds : GenerateOtpSuccess(id)
    \/ VerifyClick
    \/ VerifyResponse

MfaSpec == MfaSpecInit /\ [][MfaNext]_vars

\* ------------------------------------------------------------- claims

\* A step of call c out of `await fetch`, and one out of `await getRefreshToken()`.
FetchSettles(c) == pc[c] = "fetching" /\ pc'[c] # "fetching"

RefreshSettles(c) == pc[c] = "refreshing" /\ pc'[c] # "refreshing"

Done(c) == pc[c] \in {"returned", "failed"}

\* C1: for one call, whatever the server answers, getRefreshToken is called
\* at most once and the original request is fetched at most twice.
C1_AtMostOneRefresh ==
    \A c \in Calls : refreshCount[c] <= 1 /\ fetchCount[c] <= 2

\* C2: every call that is in flight eventually settles, when every network
\* call it makes is answered or fails.
C2_EveryCallCompletes ==
    \A c \in Calls : (pc[c] \in InFlight) ~> Done(c)

\* C3: after a 401, with a refresh token stored and a refresh that returned
\* an access token, the one retry settles the call with its own result: no
\* further refresh, no further fetch.
C3_OneRetryAfterRefresh ==
    [][\A c \in Calls :
        (/\ FetchSettles(c)
         /\ fetchCount[c] = 2 /\ refreshCount[c] = 1
         /\ refreshRes[c].kind = "json"
         /\ Truthy(Get(refreshRes[c].json, "access_token")))
        => /\ Done(c)'
           /\ outcome'[c] = RequestAfterFetch(resp'[c])
           /\ fetchCount'[c] = 2 /\ refreshCount'[c] = 1]_vars

\* C4: a response that is neither ok nor 401 fails the call with an
\* HttpError of the response's status, carrying the parsed body when the
\* body parses, whatever the body.
C4_ErrorStatusIsResponseStatus ==
    \A c \in Calls :
        (/\ Done(c)
         /\ resp[c].kind = "http"
         /\ ~ResponseOk(resp[c].status)
         /\ resp[c].status # 401)
        => /\ outcome[c].kind = "HttpError"
           /\ outcome[c].status = resp[c].status
           /\ resp[c].body.parses => outcome[c].error = resp[c].body.json

\* C5: a 401 met while the store holds no refresh token (absent or empty)
\* fails the call in the same step with HttpError(401, invalid_refresh_token):
\* no refresh call, no retry, tokens untouched.
C5_NoRefreshTokenFailsAtOnce ==
    [][\A c \in Calls :
        (/\ FetchSettles(c)
         /\ resp'[c].kind = "http" /\ resp'[c].status = 401
         /\ ~Truthy(refreshToken))
        => /\ pc'[c] = "failed"
           /\ outcome'[c] = HttpError(401, InvalidRefreshToken)
           /\ refreshCount'[c] = refreshCount[c]
           /\ fetchCount'[c] = fetchCount[c]
           /\ accessToken' = accessToken]_vars

C5_Witness ==
    \E c \in Calls :
        /\ pc[c] = "failed"
        /\ resp[c].kind = "http" /\ resp[c].status = 401
        /\ outcome[c] = HttpError(401, InvalidRefreshToken)
        /\ refreshToken = "" /\ accessToken = "a0"
        /\ refreshCount[c] = 0 /\ fetchCount[c] = 1

\* C6: a refresh response tagged invalid_refresh_token fails the call with
\* HttpError(401, that response): no further refresh, no retry.
C6_RejectedRefreshFails ==
    [][\A c \in Calls :
        (/\ RefreshSettles(c)
         /\ refreshRes'[c].kind = "json"
         /\ Get(refreshRes'[c].json, "error") = "invalid_refresh_token")
        => /\ pc'[c] = "failed"
           /\ outcome'[c] = HttpError(401, refreshRes'[c].json)
           /\ refreshCount'[c] = refreshCount[c]
           /\ fetchCount'[c] = fetchCount[c]
           /\ wire'[c] = wire[c]]_vars

C6_Witness ==
    \E c \in Calls :
        /\ pc[c] = "failed"
        /\ refreshRes[c].kind = "json"
        /\ Get(refreshRes[c].json, "error") = "invalid_refresh_token"
        /\ outcome[c] = HttpError(401, refreshRes[c].json)
        /\ outcome[c].error # InvalidRefreshToken
        /\ refreshCount[c] = 1 /\ fetchCount[c] = 1

\* C7: a fetch that yields no response fails the call with
\* HttpError(500, {error: 'Network error'}): no refresh call, no retry.
C7_TransportFailureIs500 ==
    [][\A c \in Calls :
        (FetchSettles(c) /\ resp'[c] = NoResponse)
        => /\ pc'[c] = "failed"
           /\ outcome'[c] = HttpError(500, NetworkError)
           /\ refreshCount'[c] = refreshCount[c]
           /\ fetchCount'[c] = fetchCount[c]
           /\ accessToken' = accessToken /\ refreshToken' = refreshToken]_vars

C7_Witness ==
    \E c \in Calls :
        /\ pc[c] = "failed"
        /\ resp[c] = NoResponse
        /\ outcome[c] = HttpError(500, NetworkError)
        /\ refreshCount[c] = 0 /\ fetchCount[c] = 1

\* C8: every failed call fails with an HttpError.
C8_EveryFailureIsHttpError ==
    \A c \in Calls : pc[c] = "failed" => outcome[c].kind = "HttpError"

\* C9: a step of the client changes the access token only to the access
\* token a refresh response carried, and never changes the refresh token.
C9_TokenChangesOnlyOnRefreshSuccess ==
    [][\A c \in Calls :
        (pc'[c] # pc[c])
        => /\ refreshToken' = refreshToken
           /\ accessToken' # accessToken
              => /\ RefreshSettles(c)
                 /\ refreshRes'[c].kind = "json"
                 /\ Truthy(Get(refreshRes'[c].json, "access_token"))
                 /\ accessToken' = Get(refreshRes'[c].json, "access_token")]_vars

\* The call failed on the refresh flow: refresh token absent, or rejected.
RefreshFlowFailed(c) ==
    /\ pc[c] = "failed"
    /\ outcome[c].kind = "HttpError"
    /\ outcome[c].status = 401
    /\ Get(outcome[c].error, "error") = "invalid_refresh_token"

\* C10 as stated: once the refresh flow has failed, both tokens are absent.
C10_SessionDestroyedOnRefreshFailure ==
    \A c \in Calls :
        RefreshFlowFailed(c) => ~Truthy(accessToken) /\ ~Truthy(refreshToken)

\* C10 amended: the step in which the refresh flow fails leaves both tokens
\* as they were; the client destroys nothing.
C10_RefreshFailureLeavesSession ==
    [][\A c \in Calls :
        (pc'[c] # pc[c] /\ RefreshFlowFailed(c)')
        => accessToken' = accessToken /\ refreshToken' = refreshToken]_vars

C10_Witness ==
    \E c \in Calls :
        /\ RefreshFlowFailed(c)
        /\ refreshRes[c].kind = "json"
        /\ accessToken = "a0" /\ refreshToken = "r0"

\* The refresh response of call c carries an access token.
RefreshSucceeded(c) ==
    /\ refreshRes[c].kind = "json"
    /\ Truthy(Get(refreshRes[c].json, "access_token"))

\* C11: refreshes are not coalesced.  Every call that meets a 401 while a
\* refresh token is stored makes its own refresh call, whatever the other
\* calls are doing; every refresh that returns an access token stores that
\* token over whatever is stored (so the last to complete wins) and retries
\* the request of its own call with it, leaving the other calls alone.
C11_RefreshesNotCoalesced ==
    [][\A c \in Calls :
        /\ (/\ FetchSettles(c)
            /\ resp'[c].kind = "http" /\ resp'[c].status = 401
            /\ Truthy(refreshToken))
           => /\ pc'[c] = "refreshing"
              /\ refreshCount'[c] = Bump(refreshCount[c])
              /\ \A d \in Calls \ {c} : refreshCount'[d] = refreshCount[d]
        /\ (RefreshSettles(c) /\ RefreshSucceeded(c)')
           => /\ accessToken' = refreshRes'[c].json.access_token
              /\ pc'[c] = "fetching"
              /\ fetchCount'[c] = Bump(fetchCount[c])
              /\ wire'[c].url = wire[c].url
              /\ wire'[c].headers["authorization"] = <<"bearer ", accessToken'>>
              /\ \A d \in Calls \ {c} : pc'[d] = pc[d] /\ wire'[d] = wire[d]]_vars

\* Two calls in flight at once, each on the retry after its own refresh, each
\* retry carrying the token of its own refresh; the store holds the second.
C11_Witness ==
    /\ \A c \in Calls :
        pc[c] = "fetching" /\ fetchCount[c] = 2 /\ refreshCount[c] = 1
    /\ wire[1].headers["authorization"] = <<"bearer ", "a1">>
    /\ wire[2].headers["authorization"] = <<"bearer ", "a2">>
    /\ accessToken = "a2"

\* A step in which call c issues a request: the first fetch or a retry.
Issues(c) == pc[c] # "fetching" /\ pc'[c] = "fetching"

\* C12: the headers of every issued request are the base set (Content-Type,
\* x-blocks-key, and the bearer Authorization header exactly when cookies are
\* disabled and the token stored at that moment is non-empty) merged with the
\* caller's headers, the caller's value winning for every header name.
C12_CallerHeadersWin ==
    [][\A c \in Calls : Issues(c) =>
        LET caller == req'[c].headers
            callerNames == {LowerName(caller[i][1]) : i \in DOMAIN caller}
            callerValue(n) ==
                caller[CHOOSE i \in DOMAIN caller : LowerName(caller[i][1]) = n][2]
            bearer == env.cookieEnabled = "false"
                      /\ accessToken' \notin {Null, Undefined, ""}
            baseNames == {"content-type", "x-blocks-key"}
                         \cup (IF bearer THEN {"authorization"} ELSE {})
            baseValue(n) ==
                CASE n = "content-type" -> <<"application/json">>
                  [] n = "x-blocks-key" -> <<env.blocksKey>>
                  [] n = "authorization" -> <<"bearer ", accessToken'>>
        IN  wire'[c].headers =
                [n \in baseNames \cup callerNames |->
                    IF n \in callerNames THEN callerValue(n) ELSE baseValue(n)]]_vars

\* C13: an absolute URL is used unchanged; every relative path is prefixed with
\* the base URL so that exactly one slash separates the two, whether or not
\* the base ends with a slash or the path starts with one; no relative path is
\* taken for an absolute URL.
C13_UrlResolution ==
    \A c \in Calls : pc[c] # "idle" =>
        LET url == req[c].url
            absolute ==
                \/ StartsWith(url, <<"h", "t", "t", "p", ":", "/", "/">>)
                \/ StartsWith(url, <<"h", "t", "t", "p", "s", ":", "/", "/">>)
            base == IF env.backendUrl[Len(env.backendUrl)] = "/"
                    THEN SubSeq(env.backendUrl, 1, Len(env.backendUrl) - 1)
                    ELSE env.backendUrl
            path == IF url[1] = "/" THEN SubSeq(url, 2, Len(url)) ELSE url
        IN  wire[c].url = IF absolute THEN url ELSE base \o <<"/">> \o path

\* C14: after any sequence of criteria changes, several before a re-render
\* included, the displayed list is the filter of the full source under the
\* current values of the three criteria.
C14_DisplayedIsFilterOfCurrent ==
    filteredActivities = filterActivities(searchQuery, dateRange, selectedCategory)

\* The steps of the last filterActivities call that had something to do.
DateApplied == "from" \in DOMAIN applied.range /\ "to" \in DOMAIN applied.range

TextApplied == Len(applied.query) > 0

CategoryApplied == Len(applied.categories) > 0

\* C15: the date step acts only when both bounds are present; it keeps a group
\* exactly when from <= d <= to for the group's own date d, and a kept group
\* keeps all its items.
C15_DatePredicate ==
    LET inRange(group) ==
            DateApplied =>
                /\ applied.range.from <= GetTime(group.date)
                /\ GetTime(group.date) <= applied.range.to
    IN  /\ (~TextApplied /\ ~CategoryApplied)
            => filteredActivities = SelectSeq(activities, inRange)
        /\ \A i \in DOMAIN filteredActivities : inRange(filteredActivities[i])

C15_Witness ==
    /\ applied = [query |-> <<>>, range |-> [from |-> 1, to |-> 2], categories |-> <<>>]
    /\ Len(activities) = 3
    /\ Len(filteredActivities) = 2
    /\ filteredActivities[1] = activities[1]
    /\ filteredActivities[2].date = "2024-01-02"

\* C16: with a non-empty query the output holds exactly the items whose
\* description contains the query ignoring letter case, and no group without
\* items; with an empty query no item is removed for its description.
C16_TextPredicate ==
    LET matches(item) ==
            \E k \in 0..(Len(item.description) - Len(applied.query)) :
                \A j \in 1..Len(applied.query) :
                    LowerChar(item.description[k + j]) = LowerChar(applied.query[j])
        narrowed == [i \in DOMAIN activities |->
                        [date |-> activities[i].date,
                         items |-> SelectSeq(activities[i].items, matches)]]
    IN  (~DateApplied /\ ~CategoryApplied)
            => filteredActivities =
                   IF TextApplied
                   THEN SelectSeq(narrowed, LAMBDA group : group.items # <<>>)
                   ELSE activities

C16_Witness ==
    /\ applied = [query |-> <<"A", "B">>, range |-> NoRange, categories |-> <<>>]
    /\ Len(activities) = 3
    /\ filteredActivities =
           << [date |-> "2024-01-01", items |-> <<activities[1].items[1]>>] >>

\* C17: with a non-empty category array an item is kept exactly when its
\* category, lowercased and with every run of whitespace replaced by one
\* underscore, is in the array, and no group without items is kept; with an
\* empty array no item is removed for its category.
C17_CategoryPredicate ==
    LET normal(category) ==
            LET starts == SelectSeq([i \in DOMAIN category |-> i],
                            LAMBDA i : \/ category[i] \notin Whitespace
                                       \/ i = 1
                                       \/ category[i - 1] \notin Whitespace)
            IN  [k \in DOMAIN starts |->
                    IF category[starts[k]] \in Whitespace
                    THEN "_"
                    ELSE LowerChar(category[starts[k]])]
        selected(item) ==
            \E i \in DOMAIN applied.categories :
                applied.categories[i] = normal(item.category)
        narrowed == [i \in DOMAIN activities |->
                        [date |-> activities[i].date,
                         items |-> SelectSeq(activities[i].items, selected)]]
    IN  (~DateApplied /\ ~TextApplied)
            => filteredActivities =
                   IF CategoryApplied
                   THEN SelectSeq(narrowed, LAMBDA group : group.items # <<>>)
                   ELSE activities

C17_Witness ==
    /\ applied = [query |-> <<>>, range |-> NoRange,
                  categories |-> << <<"t", "_", "m">> >>]
    /\ Len(activities) = 3
    /\ filteredActivities =
           << [date |-> "2024-01-01", items |-> <<activities[1].items[1]>>],
              [date |-> "2024-01-02", items |-> <<activities[2].items[2]>>] >>

\* C18: the three steps commute: taken in any of the six orders, under the
\* criteria of the call, they give the list the code's order gives.
C18_StepsCommute ==
    LET D(list) == DateStep(list, applied.range)
        T(list) == TextStep(list, applied.query)
        C(list) == CategoryStep(list, applied.categories)
    IN  /\ filteredActivities = C(T(D(activities)))
        /\ filteredActivities = T(C(D(activities)))
        /\ filteredActivities = C(D(T(activities)))
        /\ filteredActivities = D(C(T(activities)))
        /\ filteredActivities = T(D(C(activities)))
        /\ filteredActivities = D(T(C(activities)))

\* All three steps at work: some groups go for their date, some items for
\* their description, some for their category.
C18_Witness ==
    /\ applied = [query |-> <<"a">>, range |-> [from |-> 1, to |-> 2],
                  categories |-> << <<"i">> >>]
    /\ Len(activities) = 3
    /\ filteredActivities =
           << [date |-> "2024-01-02", items |-> <<activities[2].items[1]>>] >>

\* a is b with some elements left out, up to `same` on the elements.
IsSubsequence(a, b, same(_, _)) ==
    \E f \in [DOMAIN a -> DOMAIN b] :
        /\ \A i, j \in DOMAIN a : i < j => f[i] < f[j]
        /\ \A i \in DOMAIN a : same(a[i], b[f[i]])

\* C19: the output is a subset of the source: its groups are source groups
\* in source order, the items of each are items of that source group in
\* their order; filtering leaves the source list as it was.
C19_OutputWithinSource ==
    [][/\ activities' = activities
       /\ IsSubsequence(filteredActivities', activities',
            LAMBDA out, src :
                /\ out.date = src.date
                /\ IsSubsequence(out.items, src.items,
                                 LAMBDA x, y : x = y))]_vars

C19_Witness ==
    /\ applied = [query |-> <<"a">>, range |-> NoRange, categories |-> <<>>]
    /\ Len(activities) = 3
    /\ filteredActivities =
           << [date |-> "2024-01-01", items |-> <<activities[1].items[1]>>],
              activities[2] >>

\* A step in which a sign-in attempt fails.
AttemptFails == submit = "pending" /\ submit' = "idle"

\* C20: with a site key the CAPTCHA is not shown before the third failed
\* attempt, is shown from the moment the third failed attempt completes, and
\* once shown is never hidden; without a site key it is never shown and
\* failed attempts are not counted.
C20_CaptchaAfterThreeFailures ==
    [][/\ googleSiteKey # "" =>
            /\ AttemptFails => failedAttempts' = failedAttempts + 1
            /\ ~AttemptFails => failedAttempts' = failedAttempts
            /\ showCaptcha' <=> failedAttempts' >= 3
            /\ showCaptcha => showCaptcha'
       /\ googleSiteKey = "" => ~showCaptcha' /\ failedAttempts' = 0]_vars

\* The third failed attempt has just completed on a form with a site key.
C20_Witness ==
    /\ googleSiteKey # ""
    /\ failedAttempts = 3
    /\ submitted.failedAttempts = 2
    /\ submit = "idle"
    /\ showCaptcha

\* C21: sign-out is final for requests in flight: a refresh that completes
\* after the tokens were cleared writes no access token back, so the access
\* token stays absent until the next sign-in.
C21_SignOutIsFinal ==
    [][\A c \in Calls :
        (RefreshSettles(c) /\ ~Truthy(accessToken) /\ ~Truthy(refreshToken))
        => ~Truthy(accessToken')]_vars

\* A step in which verifyOTP is called.
VerifyCalled == verifying'.n # verifying.n

\* C22: the auto-verify effect submits only the current 6-character code,
\* with an mfaId set and no verification pending, and never the code of the
\* call before it: a code that failed is not sent again by the effect, also
\* after a digit was deleted and retyped.
C22_NoVerifyLoop ==
    [][(VerifyCalled /\ verifying'.by = "effect")
        => /\ verifying'.verificationCode = otpValue'
           /\ Len(verifying'.verificationCode) = 6
           /\ verifying'.mfaId # ""
           /\ settled' = verifying.n
           /\ verifying.by # "none"
               => verifying'.verificationCode # verifying.verificationCode]_vars

\* Code X was verified and failed; the user has deleted a digit and retyped
\* X (the error text is gone), and nothing is pending.
C22_Witness ==
    /\ dialog = "open"
    /\ otpValue = <<"1", "2", "3", "4", "5", "6">>
    /\ lastVerifiedOtpRef = otpValue
    /\ verifying.verificationCode = otpValue
    /\ verifying.by = "effect"
    /\ settled = verifying.n
    /\ mfaId # ""
    /\ otpError = ""
    /\ ~verifyOtpPending

\* The tokens of the session store.
Session == <<accessToken, refreshToken>>

\* C23: the form writes tokens into the session only after a sign-in response
\* that succeeded and asks for no MFA; a response with enable_mfa set leads to
\* the MFA verification route with no token written; a failed sign-in call
\* leaves the session as it was.
C23_TokensOnlyAfterPlainSuccess ==
    [][/\ Session' # Session
            => /\ submit = "pending"
               /\ signinRes'.kind = "json"
               /\ ~Truthy(Get(signinRes'.json, "enable_mfa"))
               /\ Session' = <<signinRes'.json.access_token, signinRes'.json.refresh_token>>
       /\ (submit = "pending" /\ submit' # "pending")
            => /\ (signinRes'.kind = "json" /\ Truthy(Get(signinRes'.json, "enable_mfa")))
                    => /\ Session' = Session
                       /\ route'.path = "/verify-key"
                       /\ route'.mfa_id = signinRes'.json.mfaId
               /\ signinRes'.kind = "throws"
                    => Session' = Session /\ route' = route]_vars

\* The response asked for MFA: the form is on the verification route and the
\* session holds no token.
C23_Witness ==
    /\ signinRes.kind = "json"
    /\ Truthy(Get(signinRes.json, "enable_mfa"))
    /\ route.path = "/verify-key"
    /\ submit = "left"
    /\ ~Truthy(accessToken) /\ ~Truthy(refreshToken)

\* C24: while the CAPTCHA is shown and no CAPTCHA token is held, a submit
\* sends no sign-in request and counts no failed attempt; that is so again
\* after a held token has expired, until the CAPTCHA is verified anew.
C24_NoRequestWithoutCaptchaToken ==
    [][/\ (submit = "idle" /\ submit' = "pending")
            => ~(googleSiteKey # "" /\ showCaptcha /\ captchaToken = "")
       /\ (googleSiteKey # "" /\ showCaptcha /\ captchaToken = "" /\ submit = "idle")
            => /\ submit' = "idle"
               /\ failedAttempts' = failedAttempts
               /\ signinRes' = signinRes]_vars

\* A request went out with a token while the CAPTCHA was shown and failed;
\* the token has since expired and the form waits for a new one.
C24_Witness ==
    /\ googleSiteKey # ""
    /\ showCaptcha
    /\ submitted.showCaptcha
    /\ signinRes.kind = "throws"
    /\ captchaToken = ""
    /\ submit = "idle"

====
